---- MODULE Spec2Model ----
(***************************************************************************)
(* Model of PayhipMonitor (src/Main.py): the polling-and-deduplication     *)
(* loop check_orders, its lifecycle (run_bot, on_ready, stop_bot) and the  *)
(* bounded log gui_log.                                                    *)
(*                                                                         *)
(* check_orders is a discord.ext.tasks.Loop.  Its scheduling is modelled   *)
(* from the library's Loop._loop / Loop.start / Loop.stop: start() raises  *)
(* RuntimeError while the previous task is not done, stop() only sets      *)
(* _stop_next_iteration, an exception of the body that is not one of the   *)
(* "valid" (reconnect) exception types ends the task, a valid one makes    *)
(* the loop back off and run the body again.  The loop reads               *)
(* _stop_next_iteration before its first iteration and right after the     *)
(* body has returned, not after the sleep between two iterations           *)
(* (discord.py 2.x, the version whose Client.run works from the worker     *)
(* thread of line 143).                                                    *)
(***************************************************************************)
EXTENDS Naturals, Sequences, FiniteSets

VARIABLES
    processed_orders,     \* self.processed_orders (line 30)
    bot_running,          \* self.bot_running (line 31)
    gui_log,              \* self.gui_log, deque(maxlen=50) (line 32)
    connecting,           \* run_bot threads inside bot.run, not yet ready
    sessions,             \* gateway sessions that have signalled ready
    is_closed,            \* self.bot.is_closed()
    close_unawaited,      \* a bot.close() coroutine was made, never awaited
    loop_task,            \* check_orders._task: slot of its task, 0 = none
    stop_next_iteration,  \* check_orders._stop_next_iteration
    cycle,                \* per task slot: position in Loop._loop and body
    logged,               \* history: every message ever passed to log()
    notified,             \* history: ids whose channel.send has succeeded
    failed,               \* history: ids whose channel.send has raised
    stop_requested,       \* history: stop_bot ran on a live loop, not restarted
    outbox,               \* the last order given to send_notification and
                          \* the embed built for it (lines 84-94)
    ev                    \* history: the last handler step taken

vars == <<processed_orders, bot_running, gui_log, connecting, sessions,
          is_closed, close_unawaited, loop_task, stop_next_iteration, cycle,
          logged, notified, failed, stop_requested, outbox, ev>>

----------------------------------------------------------------------------
(* Bounds of the model *)

MaxPage == 2
MaxSlots == 2
MaxThreads == 2
MaxLogged == 4
MaxEvents == 104
MaxItems == 2

(* Program constants *)

LogCap == 50

Ids == {"A", "B"}
Statuses == {"completed", "pending"}

\* PayhipOrder (lines 16-22); total, customer_email and items do not
\* influence check_orders.
PayhipOrder == [id : Ids, status : Statuses]

Pages == UNION {[1..n -> PayhipOrder] : n \in 0..MaxPage}

Slots == 1..MaxSlots

IdleCycle ==
    [st |-> "done", fetch_ok |-> TRUE, orders |-> <<>>, idx |-> 0,
     channel |-> FALSE]

----------------------------------------------------------------------------
(* log (lines 98-105) on a deque(maxlen=50) *)

\* a list instead of a bounded deque
ListAppend(q, m) == Append(q, m)

DequeAppend(q, m) ==
    IF Len(q) < LogCap THEN Append(q, m) ELSE Append(Tail(q), m)

RECURSIVE LogAll(_, _)
LogAll(q, ms) ==
    IF ms = <<>> THEN q ELSE LogAll(DequeAppend(q, Head(ms)), Tail(ms))

\* The handler appends the messages ms, in order.
Log(ms) ==
    /\ gui_log' = LogAll(gui_log, ms)
    /\ logged' = logged \o ms

CanLog(k) == Len(logged) + k <= MaxLogged

----------------------------------------------------------------------------
\* line 53 without the registry test
ShouldNotifyNoRegistry(order, processed) ==
    order.status = "completed"

\* line 53 without the status test
ShouldNotifyAnyStatus(order, processed) ==
    order.id \notin processed

\* line 53 with the registry test inverted
ShouldNotifySeenOnly(order, processed) ==
    order.status = "completed" /\ order.id \in processed

\* the order the for loop of line 52 is at
Current(t) == cycle[t].orders[cycle[t].idx]

\* an execution of check_orders is in progress
InCycle(t) == cycle[t].st \in {"body", "sending"}

(* check_orders, line 53 *)
ShouldNotify(order, processed) ==
    order.status = "completed" /\ order.id \notin processed

\* check_orders._task exists and is not done
TaskIsLive ==
    loop_task # 0 /\ cycle[loop_task].st # "done"

\* start() without its "already launched" test
StartNeverRefused == FALSE

(* tasks.Loop.start as called by on_ready (line 44): refuses while the     *)
(* latest task is not done.                                                *)
StartRefused == TaskIsLive

FreeSlots == {t \in Slots : cycle[t].st = "done"}

LowestFree == CHOOSE t \in FreeSlots : \A u \in FreeSlots : t <= u

----------------------------------------------------------------------------
(* send_notification (lines 83-96): the embed built for an order *)

\* nothing built yet
NoEmbed == <<>>

\* item.get('product_name', 'Unknown'), line 93
ProductName(item) ==
    IF "product_name" \in DOMAIN item THEN item.product_name ELSE "Unknown"

\* "\n".join(f"- {...}" for item in items), line 93
RECURSIVE ProductLines(_)
ProductLines(items) ==
    IF items = <<>> THEN ""
    ELSE IF Len(items) = 1 THEN "- " \o ProductName(items[1])
    ELSE ("- " \o ProductName(items[1])) \o "\n" \o ProductLines(Tail(items))

TotalField(order) ==
    [name |-> "Total: ", value |-> "$" \o order.total, inline |-> TRUE]

EmailField(order) ==
    [name |-> "Customer(EMAIL): ", value |-> order.customer_email,
     inline |-> TRUE]

ProductsField(order) ==
    [name |-> "Products(this is what you're customer is bought)",
     value |-> ProductLines(order.items), inline |-> FALSE]

\* the Products field added whatever items holds
EmbedAlwaysProducts(order) ==
    [title |-> "Someone is buying you're digital product!!!",
     description |-> "**Order ID:** " \o order.id,
     fields |-> <<TotalField(order), EmailField(order), ProductsField(order)>>]

(* lines 84-94; the back quotes around the id in the description are left *)
(* out, a TLA+ string cannot hold them                                     *)
Embed(order) ==
    [title |-> "Someone is buying you're digital product!!!",
     description |-> "**Order ID:** " \o order.id,
     fields |-> IF order.items # <<>>
                THEN <<TotalField(order), EmailField(order),
                       ProductsField(order)>>
                ELSE <<TotalField(order), EmailField(order)>>]

----------------------------------------------------------------------------
Init ==
    /\ processed_orders = {}
    /\ bot_running = FALSE
    /\ gui_log = <<>>
    /\ connecting = 0
    /\ sessions = 0
    /\ is_closed = FALSE
    /\ close_unawaited = FALSE
    /\ loop_task = 0
    /\ stop_next_iteration = FALSE
    /\ cycle = [t \in Slots |-> IdleCycle]
    /\ logged = <<>>
    /\ notified = {}
    /\ failed = {}
    /\ stop_requested = FALSE
    /\ outbox = NoEmbed
    /\ ev = [op |-> "init", arg |-> ""]

----------------------------------------------------------------------------
\* run_bot starting the polling loop itself, without the ready signal
RunBotStartsLoop ==
    /\ connecting + sessions < MaxThreads
    /\ CanLog(1)
    /\ bot_running' = TRUE
    /\ Log(<<"Starting Discord bot...">>)
    /\ connecting' = connecting + 1
    /\ stop_requested' = FALSE
    /\ ev' = [op |-> "run_bot",
              arg |-> IF connecting + sessions > 0 THEN "again" ELSE "first"]
    /\ IF StartRefused
       THEN UNCHANGED <<loop_task, cycle>>
       ELSE /\ FreeSlots # {}
            /\ loop_task' = LowestFree
            /\ cycle' = [cycle EXCEPT ![LowestFree] =
                            [IdleCycle EXCEPT !.st = "launched"]]
    /\ UNCHANGED <<processed_orders, sessions, is_closed, close_unawaited,
                   stop_next_iteration, notified, failed, outbox>>

(* run_bot (lines 106-113), up to the blocking call of bot.run *)
RunBot ==
    /\ connecting + sessions < MaxThreads
    /\ CanLog(1)
    /\ bot_running' = TRUE
    /\ Log(<<"Starting Discord bot...">>)
    /\ connecting' = connecting + 1
    /\ stop_requested' = FALSE
    /\ ev' = [op |-> "run_bot",
              arg |-> IF connecting + sessions > 0 THEN "again" ELSE "first"]
    /\ UNCHANGED <<processed_orders, sessions, is_closed, close_unawaited,
                   loop_task, stop_next_iteration, cycle, notified, failed,
                   outbox>>

\* the except clause without line 113
RunBotFailsKeepsFlag ==
    /\ connecting > 0
    /\ CanLog(1)
    /\ connecting' = connecting - 1
    /\ Log(<<"Bot error">>)
    /\ is_closed' = IF sessions = 0 THEN TRUE ELSE is_closed
    /\ ev' = [op |-> "run_bot_fails", arg |-> ""]
    /\ UNCHANGED <<processed_orders, bot_running, sessions, close_unawaited,
                   loop_task, stop_next_iteration, cycle, notified, failed,
                   stop_requested, outbox>>

(* bot.run raises (lines 111-113).  The runner's cleanup closes the client  *)
(* when this was its only user; a failed second run_bot is taken to leave  *)
(* the session of the first alone.                                         *)
RunBotFails ==
    /\ connecting > 0
    /\ CanLog(1)
    /\ connecting' = connecting - 1
    /\ Log(<<"Bot error">>)
    /\ bot_running' = FALSE
    /\ is_closed' = IF sessions = 0 THEN TRUE ELSE is_closed
    /\ ev' = [op |-> "run_bot_fails", arg |-> ""]
    /\ UNCHANGED <<processed_orders, sessions, close_unawaited, loop_task,
                   stop_next_iteration, cycle, notified, failed,
                   stop_requested, outbox>>

(* bot.run on a closed client returns without connecting; line 110 falls   *)
(* through and bot_running stays as it is.                                 *)
RunBotReturns ==
    /\ connecting > 0
    /\ is_closed
    /\ connecting' = connecting - 1
    /\ ev' = [op |-> "run_bot_returns", arg |-> ""]
    /\ UNCHANGED <<processed_orders, bot_running, gui_log, sessions,
                   is_closed, close_unawaited, loop_task, stop_next_iteration,
                   cycle, logged, notified, failed, stop_requested, outbox>>

(* on_ready (lines 41-44): log, then check_orders.start() *)
OnReadyBody ==
    /\ Log(<<"Discord Bot Connected">>)
    /\ IF StartRefused
       THEN /\ ev' = [op |-> "on_ready", arg |-> "RuntimeError"]
            /\ UNCHANGED <<loop_task, cycle>>
       ELSE /\ FreeSlots # {}
            /\ loop_task' = LowestFree
            /\ cycle' = [cycle EXCEPT ![LowestFree] =
                            [IdleCycle EXCEPT !.st = "launched"]]
            /\ ev' = [op |-> "on_ready", arg |-> "started"]

\* first ready signal of a connecting session
OnReady ==
    /\ connecting > 0
    /\ ~is_closed
    /\ CanLog(1)
    /\ connecting' = connecting - 1
    /\ sessions' = sessions + 1
    /\ OnReadyBody
    /\ UNCHANGED <<processed_orders, bot_running, is_closed, close_unawaited,
                   stop_next_iteration, notified, failed, stop_requested,
                   outbox>>

\* a session that re-identifies signals ready again
OnReadyAgain ==
    /\ sessions > 0
    /\ CanLog(1)
    /\ OnReadyBody
    /\ UNCHANGED <<processed_orders, bot_running, connecting, sessions,
                   is_closed, close_unawaited, stop_next_iteration, notified,
                   failed, stop_requested, outbox>>

----------------------------------------------------------------------------
(* tasks.Loop._loop around the body check_orders (line 46)                 *)

\* The loop is about to call the body: the first iteration, the end of the
\* sleep between two iterations, or the end of a back-off.
RunsBody(t) ==
    \/ cycle[t].st = "backoff"
    \/ cycle[t].st = "sleeping"
    \/ cycle[t].st = "launched" /\ ~stop_next_iteration

\* The loop reads _stop_next_iteration and returns.
ExitsLoop(t) ==
    \/ cycle[t].st = "launched" /\ stop_next_iteration
    \/ cycle[t].st = "returned" /\ stop_next_iteration

(* fetch_orders (lines 60-81) *)

\* the keys read with order[...] in lines 71-74; items is read with .get
RequiredKeys == {"id", "status", "total", "customer_email"}

WellFormedRecords ==
    [id : Ids, status : Statuses, total : {"9.99"},
     customer_email : {"x@y.com"}]

Without(r, key) == [k \in DOMAIN r \ {key} |-> r[k]]

\* one record of the payload: complete, or with one required key missing
RawRecords ==
    WellFormedRecords
        \cup {Without([id |-> "A", status |-> "completed", total |-> "9.99",
                       customer_email |-> "x@y.com"], key) :
                    key \in RequiredKeys}

\* what requests.get and response.json() give: an exception (transport
\* error, non-2xx status, body that is not JSON), or the "data" array
Responses ==
    {[kind |-> "exception", data |-> <<>>]}
        \cup {[kind |-> "json", data |-> d] :
                    d \in UNION {[1..n -> RawRecords] : n \in 0..MaxPage}}

WellFormed(r) == RequiredKeys \subseteq DOMAIN r

\* lines 70-76
MapRecord(r) == [id |-> r.id, status |-> r.status]

\* a malformed record left out instead of failing the whole page
FetchOrdersSkipsMalformed(resp) ==
    IF resp.kind = "exception"
    THEN [ok |-> FALSE, orders |-> <<>>]
    ELSE LET good == SelectSeq(resp.data, WellFormed)
         IN  [ok |-> TRUE,
              orders |-> [i \in 1..Len(good) |-> MapRecord(good[i])]]

\* the list comprehension of lines 69-78 inside the try: a KeyError of any
\* record is caught by line 79 and the whole page is lost
FetchOrders(resp) ==
    IF \/ resp.kind = "exception"
       \/ \E i \in 1..Len(resp.data) : ~WellFormed(resp.data[i])
    THEN [ok |-> FALSE, orders |-> <<>>]
    ELSE [ok |-> TRUE,
          orders |-> [i \in 1..Len(resp.data) |-> MapRecord(resp.data[i])]]

\* what fetch_orders can return: a page, or the empty list after an exception
FetchResults == {FetchOrders(resp) : resp \in Responses}

\* fetch_orders without its try/except: the exception leaves the body and
\* ends the loop's task
CheckOrdersBeginUncaught(t) ==
    /\ RunsBody(t)
    /\ \E resp \in Responses, ch \in BOOLEAN : LET res == FetchOrders(resp) IN
        /\ cycle' = [cycle EXCEPT ![t] =
                        IF res.ok
                        THEN [st |-> IF ch THEN "body" ELSE "returned",
                              fetch_ok |-> TRUE, orders |-> res.orders,
                              idx |-> 1, channel |-> ch]
                        ELSE IdleCycle]
        /\ ev' = [op |-> IF res.ok THEN "fetch_ok" ELSE "fetch_error",
                  arg |-> IF ch THEN "channel" ELSE "no_channel",
                  resp |-> resp]
    /\ UNCHANGED <<processed_orders, bot_running, gui_log, connecting,
                   sessions, is_closed, close_unawaited, loop_task,
                   stop_next_iteration, logged, notified, failed,
                   stop_requested, outbox>>

\* check_orders without the return of lines 49-50
CheckOrdersBeginIgnoresChannel(t) ==
    /\ RunsBody(t)
    /\ \E resp \in Responses, ch \in BOOLEAN : LET res == FetchOrders(resp) IN
        /\ IF res.ok
           THEN UNCHANGED <<gui_log, logged>>
           ELSE CanLog(1) /\ Log(<<"API Error">>)
        /\ cycle' = [cycle EXCEPT ![t] =
                        [st |-> "body", fetch_ok |-> res.ok,
                         orders |-> res.orders, idx |-> 1, channel |-> ch]]
        /\ ev' = [op |-> IF res.ok THEN "fetch_ok" ELSE "fetch_error",
                  arg |-> IF ch THEN "channel" ELSE "no_channel",
                  resp |-> resp]
    /\ UNCHANGED <<processed_orders, bot_running, connecting, sessions,
                   is_closed, close_unawaited, loop_task, stop_next_iteration,
                   notified, failed, stop_requested, outbox>>

(* check_orders, lines 48-50: fetch, then resolve the channel *)
CheckOrdersBegin(t) ==
    /\ RunsBody(t)
    /\ \E resp \in Responses, ch \in BOOLEAN : LET res == FetchOrders(resp) IN
        /\ IF res.ok
           THEN UNCHANGED <<gui_log, logged>>
           ELSE CanLog(1) /\ Log(<<"API Error">>)
        /\ cycle' = [cycle EXCEPT ![t] =
                        [st |-> IF ch THEN "body" ELSE "returned",
                         fetch_ok |-> res.ok, orders |-> res.orders,
                         idx |-> 1, channel |-> ch]]
        /\ ev' = [op |-> IF res.ok THEN "fetch_ok" ELSE "fetch_error",
                  arg |-> IF ch THEN "channel" ELSE "no_channel",
                  resp |-> resp]
    /\ UNCHANGED <<processed_orders, bot_running, connecting, sessions,
                   is_closed, close_unawaited, loop_task, stop_next_iteration,
                   notified, failed, stop_requested, outbox>>

(* check_orders, lines 52-54: the next order of the page; the call of      *)
(* send_notification suspends the cycle at channel.send (line 96)          *)
CheckOrdersStep(t) ==
    /\ cycle[t].st = "body"
    /\ IF cycle[t].idx > Len(cycle[t].orders)
       THEN /\ cycle' = [cycle EXCEPT ![t].st = "returned"]
            /\ ev' = [op |-> "body_returns", arg |-> ""]
       ELSE LET order == Current(t) IN
            IF ShouldNotify(order, processed_orders)
            THEN /\ cycle' = [cycle EXCEPT ![t].st = "sending"]
                 /\ ev' = [op |-> "send", arg |-> order.id]
            ELSE /\ cycle' = [cycle EXCEPT ![t].idx = @ + 1]
                 /\ ev' = [op |-> "skip", arg |-> order.id]
    /\ UNCHANGED <<processed_orders, bot_running, gui_log, connecting,
                   sessions, is_closed, close_unawaited, loop_task,
                   stop_next_iteration, logged, notified, failed,
                   stop_requested, outbox>>

(* channel.send returns: lines 55-56 *)
SendSucceeds(t) ==
    /\ cycle[t].st = "sending"
    /\ CanLog(1)
    /\ LET order == Current(t) IN
        /\ processed_orders' = processed_orders \cup {order.id}
        /\ notified' = notified \cup {order.id}
        /\ Log(<<"New Order: " \o order.id>>)
        /\ ev' = [op |-> "send_ok",
                  arg |-> IF order.id \in notified THEN "duplicate"
                          ELSE order.id]
    /\ cycle' = [cycle EXCEPT ![t].st = "body", ![t].idx = @ + 1]
    /\ UNCHANGED <<bot_running, connecting, sessions, is_closed,
                   close_unawaited, loop_task, stop_next_iteration, failed,
                   stop_requested, outbox>>

(* channel.send raises one of the loop's reconnect exception types         *)
(* (OSError, aiohttp.ClientError, asyncio.TimeoutError, ...): the body is  *)
(* abandoned and the loop backs off before it runs the body again.         *)
SendFailsTransient(t) ==
    /\ cycle[t].st = "sending"
    /\ failed' = failed \cup {Current(t).id}
    /\ ev' = [op |-> "send_failed", arg |-> Current(t).id]
    /\ cycle' = [cycle EXCEPT ![t] = [IdleCycle EXCEPT !.st = "backoff"]]
    /\ UNCHANGED <<processed_orders, bot_running, gui_log, connecting,
                   sessions, is_closed, close_unawaited, loop_task,
                   stop_next_iteration, logged, notified, stop_requested,
                   outbox>>

\* the registry marked although the send raised
SendFailsFatalMarksSeen(t) ==
    /\ cycle[t].st = "sending"
    /\ processed_orders' = processed_orders \cup {Current(t).id}
    /\ failed' = failed \cup {Current(t).id}
    /\ ev' = [op |-> "send_failed", arg |-> Current(t).id]
    /\ cycle' = [cycle EXCEPT ![t] = IdleCycle]
    /\ stop_next_iteration' = FALSE
    /\ UNCHANGED <<bot_running, gui_log, connecting, sessions, is_closed,
                   close_unawaited, loop_task, logged, notified,
                   stop_requested, outbox>>

(* channel.send raises anything else (discord.HTTPException, Forbidden,    *)
(* NotFound): nothing in lines 46-56 or 83-96 catches it, the exception    *)
(* leaves the body and ends the loop's task.                               *)
SendFailsFatal(t) ==
    /\ cycle[t].st = "sending"
    /\ failed' = failed \cup {Current(t).id}
    /\ ev' = [op |-> "send_failed", arg |-> Current(t).id]
    /\ cycle' = [cycle EXCEPT ![t] = IdleCycle]
    /\ stop_next_iteration' = FALSE
    /\ UNCHANGED <<processed_orders, bot_running, gui_log, connecting,
                   sessions, is_closed, close_unawaited, loop_task, logged,
                   notified, stop_requested, outbox>>

(* the body has returned and the loop goes to sleep until the next tick    *)
LoopSleeps(t) ==
    /\ cycle[t].st = "returned"
    /\ ~stop_next_iteration
    /\ cycle' = [cycle EXCEPT ![t] = [IdleCycle EXCEPT !.st = "sleeping"]]
    /\ ev' = [op |-> "loop_sleeps", arg |-> ""]
    /\ UNCHANGED <<processed_orders, bot_running, gui_log, connecting,
                   sessions, is_closed, close_unawaited, loop_task,
                   stop_next_iteration, logged, notified, failed,
                   stop_requested, outbox>>

(* the loop returns after a stop() *)
LoopExits(t) ==
    /\ ExitsLoop(t)
    /\ cycle' = [cycle EXCEPT ![t] = IdleCycle]
    /\ stop_next_iteration' = FALSE
    /\ ev' = [op |-> "loop_exits", arg |-> ""]
    /\ UNCHANGED <<processed_orders, bot_running, gui_log, connecting,
                   sessions, is_closed, close_unawaited, loop_task, logged,
                   notified, failed, stop_requested, outbox>>

----------------------------------------------------------------------------
(* stop_bot (lines 115-131) *)

\* tasks.Loop.stop (line 125): only a task that is not done is flagged
LoopStop ==
    IF TaskIsLive THEN TRUE ELSE stop_next_iteration

\* stop_bot without the test of line 117
StopBotUnguarded ==
    /\ CanLog(2)
    /\ Log(<<"Stopping bot...", "Bot stopped successfully">>)
    /\ bot_running' = FALSE
    /\ stop_next_iteration' = LoopStop
    /\ close_unawaited' = (close_unawaited \/ ~is_closed)
    /\ stop_requested' = (stop_requested \/ TaskIsLive)
    /\ ev' = [op |-> "stop_bot", arg |-> "running"]
    /\ UNCHANGED <<processed_orders, connecting, sessions, is_closed,
                   loop_task, cycle, notified, failed, outbox>>

StopBot ==
    IF ~bot_running
    THEN /\ ev' = [op |-> "stop_bot", arg |-> "not_running"]
         /\ UNCHANGED <<processed_orders, bot_running, gui_log, connecting,
                        sessions, is_closed, close_unawaited, loop_task,
                        stop_next_iteration, cycle, logged, notified, failed,
                        stop_requested, outbox>>
    ELSE /\ CanLog(2)
         /\ Log(<<"Stopping bot...", "Bot stopped successfully">>)
         /\ bot_running' = FALSE
         /\ stop_next_iteration' = LoopStop
         \* line 129: the thread calls bot.close(), which only creates a
         \* coroutine object; nothing awaits it and the client stays open
         /\ close_unawaited' = (close_unawaited \/ ~is_closed)
         /\ stop_requested' = (stop_requested \/ TaskIsLive)
         /\ ev' = [op |-> "stop_bot", arg |-> "running"]
         /\ UNCHANGED <<processed_orders, connecting, sessions, is_closed,
                        loop_task, cycle, notified, failed, outbox>>

----------------------------------------------------------------------------
Next ==
    \/ RunBot
    \/ RunBotFails
    \/ RunBotReturns
    \/ OnReady
    \/ OnReadyAgain
    \/ \E t \in Slots : CheckOrdersBegin(t)
    \/ \E t \in Slots : CheckOrdersStep(t)
    \/ \E t \in Slots : SendSucceeds(t)
    \/ \E t \in Slots : SendFailsTransient(t)
    \/ \E t \in Slots : SendFailsFatal(t)
    \/ \E t \in Slots : LoopSleeps(t)
    \/ \E t \in Slots : LoopExits(t)
    \/ StopBot

Spec == Init /\ [][Next]_vars

(* The event loop of the transport runs every task that is ready, the timer *)
(* of the loop fires, and every network call ends (with a result or with   *)
(* its timeout): the steps of the polling loop are weakly fair.  Commands  *)
(* of the control surface and signals of the transport are not.            *)
LoopFairness ==
    /\ WF_vars(\E t \in Slots : CheckOrdersBegin(t))
    /\ WF_vars(\E t \in Slots : CheckOrdersStep(t))
    /\ WF_vars(\E t \in Slots : SendSucceeds(t) \/ SendFailsTransient(t)
                                    \/ SendFailsFatal(t))
    /\ WF_vars(\E t \in Slots : LoopSleeps(t))
    /\ WF_vars(\E t \in Slots : LoopExits(t))

FairSpec == Spec /\ LoopFairness

----------------------------------------------------------------------------
(* The log alone: a long run of log events, each with its own message.     *)

Digits == <<"0", "1", "2", "3", "4", "5", "6", "7", "8", "9">>

RECURSIVE Decimal(_)
Decimal(n) ==
    IF n < 10 THEN Digits[n + 1] ELSE Decimal(n \div 10) \o Digits[(n % 10) + 1]

Message(n) == "New Order: " \o Decimal(n)

ProgramVarsUnchanged ==
    UNCHANGED <<processed_orders, bot_running, connecting, sessions,
                is_closed, close_unawaited, loop_task, stop_next_iteration,
                cycle, notified, failed, stop_requested, outbox>>

\* one call of log
LogOne ==
    /\ Len(logged) + 1 <= MaxEvents
    /\ Log(<<Message(Len(logged) + 1)>>)
    /\ ev' = [op |-> "log", arg |-> "one"]
    /\ ProgramVarsUnchanged

\* two calls of log in one handler, as in stop_bot
LogTwo ==
    /\ Len(logged) + 2 <= MaxEvents
    /\ Log(<<Message(Len(logged) + 1), Message(Len(logged) + 2)>>)
    /\ ev' = [op |-> "log", arg |-> "two"]
    /\ ProgramVarsUnchanged

NextLog ==
    \/ LogOne
    \/ LogTwo

SpecLog == Init /\ [][NextLog]_vars

----------------------------------------------------------------------------
(* send_notification alone: an embed is built for an order of the feed.    *)

Items ==
    {[product_name |-> "Widget"], [product_name |-> "Gadget"], [sku |-> "w-1"]}

ItemLists == UNION {[1..n -> Items] : n \in 0..MaxItems}

\* PayhipOrder with all its fields (lines 16-22)
FullOrders ==
    [id : Ids, status : {"completed"}, total : {"9.99", "0"},
     customer_email : {"x@y.com", "a@b.org"}, items : ItemLists]

BuildEmbed ==
    /\ \E order \in FullOrders :
        /\ outbox' = <<[order |-> order, embed |-> Embed(order)]>>
        /\ ev' = [op |-> "send_notification", arg |-> order.id]
    /\ UNCHANGED <<processed_orders, bot_running, gui_log, connecting,
                   sessions, is_closed, close_unawaited, loop_task,
                   stop_next_iteration, cycle, logged, notified, failed,
                   stop_requested>>

NextNotify == BuildEmbed

SpecNotify == Init /\ [][NextNotify]_vars

----------------------------------------------------------------------------
(* Claims *)

\* C1: no duplicate notification. Whenever a notify is in flight for an
\* order id, no notify for that id has succeeded before, and no successful
\* notify is ever the second one for its id.
C1_NoDuplicateNotification ==
    /\ \A t \in Slots : cycle[t].st = "sending" => Current(t).id \notin notified
    /\ ev.op = "send_ok" => ev.arg # "duplicate"

\* a cycle has just passed over a completed order whose id was notified before
C1_Witness ==
    \E t \in Slots :
        /\ cycle[t].st = "body"
        /\ cycle[t].idx > 1
        /\ ev = [op |-> "skip", arg |-> cycle[t].orders[cycle[t].idx - 1].id]
        /\ cycle[t].orders[cycle[t].idx - 1].status = "completed"
        /\ ev.arg \in notified

\* C2: retry on failure. When a notify fails for order X, X is not in the
\* registry afterwards and the polling loop is still scheduled; a later
\* cycle that comes to X, still completed, attempts the notify again.
C2_RetryOnFailure ==
    [][/\ ev'.op = "send_failed" =>
            /\ ev'.arg \notin processed_orders'
            /\ \E t \in Slots : cycle'[t].st # "done"
       /\ \A t \in Slots :
            (/\ cycle[t].st = "body"
             /\ cycle[t].idx <= Len(cycle[t].orders)
             /\ cycle'[t] # cycle[t]
             /\ Current(t).status = "completed"
             /\ Current(t).id \in failed \ notified)
            => cycle'[t].st = "sending"]_vars

\* C3: status filter. A notify is only ever in flight for an order whose
\* status is "completed", and an id enters the registry only from such an
\* order, whatever the registry holds.
C3_StatusFilter ==
    [][/\ \A t \in Slots :
            cycle'[t].st = "sending" =>
                cycle'[t].orders[cycle'[t].idx].status = "completed"
       /\ \A id \in processed_orders' \ processed_orders :
            \E t \in Slots :
                /\ cycle[t].st = "sending"
                /\ Current(t).id = id
                /\ Current(t).status = "completed"]_vars

\* a cycle has just passed over a non-completed order whose id is not in the
\* registry
C3_Witness ==
    \E t \in Slots :
        /\ cycle[t].st = "body"
        /\ cycle[t].idx > 1
        /\ ev = [op |-> "skip", arg |-> cycle[t].orders[cycle[t].idx - 1].id]
        /\ cycle[t].orders[cycle[t].idx - 1].status # "completed"
        /\ ev.arg \notin processed_orders

\* C4: no missed notification. When the body of a cycle that resolved its
\* channel has returned (so every dispatch of the cycle succeeded), every
\* completed order of its page has been notified and is in the registry.
C4_NoMissedNotification ==
    \A t \in Slots :
        (cycle[t].st = "returned" /\ cycle[t].channel) =>
            \A i \in 1..Len(cycle[t].orders) :
                cycle[t].orders[i].status = "completed" =>
                    /\ cycle[t].orders[i].id \in processed_orders
                    /\ cycle[t].orders[i].id \in notified

\* a cycle over two completed orders has returned after notifying both
C4_Witness ==
    \E t \in Slots :
        /\ cycle[t].st = "returned"
        /\ cycle[t].channel
        /\ cycle[t].orders = <<[id |-> "A", status |-> "completed"],
                               [id |-> "B", status |-> "completed"]>>
        /\ Len(logged) >= 2
        /\ logged[Len(logged) - 1] = "New Order: A"
        /\ logged[Len(logged)] = "New Order: B"

\* C5: single-flight. At most one execution of check_orders is in progress.
C5_SingleFlight ==
    Cardinality({t \in Slots : InCycle(t)}) <= 1

\* the transport signals ready again while a cycle is suspended in a send,
\* after a second run_bot
C5_Witness ==
    /\ ev = [op |-> "on_ready", arg |-> "RuntimeError"]
    /\ \E t \in Slots : cycle[t].st = "sending"
    /\ sessions = 2

\* C6: registry invariant. Every id in the registry has had a successful
\* notify; an id whose dispatches have all failed is not in the registry.
C6_RegistryInvariant ==
    /\ processed_orders \subseteq notified
    /\ \A id \in failed \ notified : id \notin processed_orders

\* an order whose dispatch failed is in the registry after a later success
C6_Witness ==
    /\ ev = [op |-> "send_ok", arg |-> "A"]
    /\ "A" \in failed
    /\ "A" \in processed_orders

\* C7: a failed fetch is recovered locally. The step of a cycle in which
\* fetch_orders fails appends one error line to the log and changes neither
\* the registry nor the set of notified ids; that cycle invokes no notify and
\* ends with the loop asleep until the next tick (it ends the task only when
\* a stop has been requested).
C7_FetchFailureRecovered ==
    [][/\ ev'.op = "fetch_error" =>
            /\ logged' = Append(logged, "API Error")
            /\ Len(gui_log') > 0
            /\ gui_log'[Len(gui_log')] = "API Error"
            /\ processed_orders' = processed_orders
            /\ notified' = notified
            /\ failed' = failed
            /\ \E t \in Slots :
                /\ cycle'[t] # cycle[t]
                /\ cycle'[t].st \in {"body", "returned"}
                /\ ~cycle'[t].fetch_ok
                /\ cycle'[t].orders = <<>>
       /\ \A t \in Slots :
            (/\ cycle[t].st \in {"body", "returned"}
             /\ ~cycle[t].fetch_ok
             /\ cycle'[t] # cycle[t])
            => \/ cycle'[t].st = "returned"
               \/ cycle'[t].st = "sleeping"
               \/ cycle'[t].st = "done" /\ stop_next_iteration]_vars

\* the loop is asleep until the next tick after a cycle whose fetch failed
C7_Witness ==
    /\ ev.op = "loop_sleeps"
    /\ \E t \in Slots : cycle[t].st = "sleeping" /\ RunsBody(t)
    /\ Len(logged) > 0
    /\ logged[Len(logged)] = "API Error"

\* C8: stop cuts off notifications. Once stop_bot has run on a live loop
\* (and run_bot has not been called since), no fetch cycle begins; a notify
\* can then only come from a cycle that was in flight at the stop.
C8_StopCutsOff ==
    [][stop_requested => ev'.op \notin {"fetch_ok", "fetch_error"}]_vars

\* C9: stop when stopped is a no-op. stop_bot called while the running flag
\* is false changes neither the flag, the timer, the transport connection,
\* the registry nor the log.
C9_StopWhenStoppedNoOp ==
    [][(ev'.op = "stop_bot" /\ ~bot_running) =>
            UNCHANGED <<bot_running, loop_task, stop_next_iteration, cycle,
                        connecting, sessions, is_closed, close_unawaited,
                        processed_orders, gui_log, logged>>]_vars

\* stop_bot has been called a second time, after a stop of a live loop
C9_Witness ==
    /\ ev = [op |-> "stop_bot", arg |-> "not_running"]
    /\ ~bot_running
    /\ stop_requested
    /\ Len(logged) >= 2
    /\ logged[Len(logged)] = "Bot stopped successfully"

\* C10: bounded log. The log holds at most 50 entries; once more than 50
\* messages have been logged it holds exactly the last 50 of them, oldest
\* first, and before that all of them.
C10_BoundedLog ==
    /\ Len(gui_log) <= LogCap
    /\ Len(logged) > LogCap =>
            gui_log = SubSeq(logged, Len(logged) - LogCap + 1, Len(logged))
    /\ Len(logged) <= LogCap => gui_log = logged

\* more than 50 messages have been logged and the oldest have been evicted
C10_Witness ==
    /\ Len(logged) = LogCap + 3
    /\ Len(gui_log) = LogCap
    /\ gui_log[1] = "New Order: 4"
    /\ gui_log[LogCap] = "New Order: 53"

\* the field of an embed with the given name, as a set (empty when absent)
FieldsNamed(embed, name) ==
    {i \in 1..Len(embed.fields) : embed.fields[i].name = name}

\* one "- <product_name>" line per item, built from the last item backwards
RECURSIVE ExpectedLines(_)
ExpectedLines(items) ==
    IF Len(items) = 0 THEN ""
    ELSE LET last == items[Len(items)]
             line == "- " \o (IF "product_name" \in DOMAIN last
                              THEN last.product_name ELSE "Unknown")
             front == SubSeq(items, 1, Len(items) - 1)
         IN  IF front = <<>> THEN line
             ELSE ExpectedLines(front) \o "\n" \o line

\* C11: notification content. The embed built for an order has one Total
\* field, "$" followed by the total string, one customer-email field equal
\* to customer_email, and a Products field exactly when items is not empty;
\* that field lists the items in input order, one "- <product_name>" line
\* each, with "Unknown" for an item without product_name.
C11_NotificationContent ==
    outbox # NoEmbed =>
        LET order == outbox[1].order
            embed == outbox[1].embed
            totals == FieldsNamed(embed, "Total: ")
            emails == FieldsNamed(embed, "Customer(EMAIL): ")
            products ==
                FieldsNamed(embed,
                            "Products(this is what you're customer is bought)")
        IN  /\ Cardinality(totals) = 1
            /\ \A i \in totals : embed.fields[i].value = "$" \o order.total
            /\ Cardinality(emails) = 1
            /\ \A i \in emails : embed.fields[i].value = order.customer_email
            /\ (products # {}) <=> (order.items # <<>>)
            /\ Cardinality(products) <= 1
            /\ \A i \in products :
                    embed.fields[i].value = ExpectedLines(order.items)

\* an embed for an order of two items, the second without product_name
C11_Witness ==
    /\ outbox # NoEmbed
    /\ outbox[1].order.items = <<[product_name |-> "Widget"], [sku |-> "w-1"]>>
    /\ outbox[1].order.total = "9.99"
    /\ \E i \in 1..Len(outbox[1].embed.fields) :
            outbox[1].embed.fields[i].value = "- Widget\n- Unknown"

\* C12: no fetch cycle before ready. As long as no session of the transport
\* has signalled ready, the polling loop has no task, no cycle has run and
\* nothing has been notified or marked seen.
C12_NoCycleBeforeReady ==
    sessions = 0 =>
        /\ loop_task = 0
        /\ \A t \in Slots : cycle[t].st = "done"
        /\ notified = {}
        /\ failed = {}
        /\ processed_orders = {}

\* run_bot has been called and the transport has not signalled ready yet
C12_Witness ==
    /\ ev = [op |-> "run_bot", arg |-> "first"]
    /\ bot_running
    /\ connecting = 1
    /\ sessions = 0

\* C13: dispatch failure is logged. Every failed notify appends exactly one
\* error line to the log, and no "New Order" line for that order.
C13_DispatchFailureLogged ==
    [][ev'.op = "send_failed" =>
            /\ Len(logged') = Len(logged) + 1
            /\ logged'[Len(logged')] # "New Order: " \o ev'.arg]_vars

\* C14: connection failure during Starting. When bot.run raises, an error
\* line is logged, the running flag is false afterwards, no task of the
\* polling loop is launched and no session becomes ready; when no session
\* was ready before, the loop has no live task afterwards.
C14_ConnectFailureStaysStopped ==
    [][ev'.op = "run_bot_fails" =>
            /\ logged' = Append(logged, "Bot error")
            /\ gui_log'[Len(gui_log')] = "Bot error"
            /\ ~bot_running'
            /\ cycle' = cycle
            /\ loop_task' = loop_task
            /\ sessions' = sessions
            /\ sessions = 0 => \A t \in Slots : cycle'[t].st = "done"]_vars

\* the only start has failed: nothing is connecting, nothing is ready
C14_Witness ==
    /\ ev.op = "run_bot_fails"
    /\ ~bot_running
    /\ connecting = 0
    /\ sessions = 0
    /\ logged = <<"Starting Discord bot...", "Bot error">>

\* C15: stop terminates the loop. After stop_bot on a live loop, and unless
\* run_bot is called again, the system eventually stays in a state where the
\* loop has no live task and the transport has been closed.
C15_StopTerminates ==
    [](stop_requested =>
            <>[](\/ ~stop_requested
                 \/ /\ \A t \in Slots : cycle[t].st = "done"
                    /\ is_closed))

\* C16: start is guarded against a double start. run_bot called while a
\* start is connecting or ready opens no further connection and launches no
\* further task, and leaves the running flag true and the loop as it is.
C16_DoubleStartGuarded ==
    [][(ev'.op = "run_bot" /\ connecting + sessions > 0) =>
            /\ connecting' + sessions' = connecting + sessions
            /\ bot_running'
            /\ cycle' = cycle
            /\ loop_task' = loop_task]_vars

\* C17: the running flag covers the loop. Whenever a fetch cycle starts or
\* the loop is scheduled (launched by on_ready, or put to sleep until the
\* next tick), bot_running is true.
C17_RunningFlagCoversLoop ==
    [][(\/ ev'.op \in {"fetch_ok", "fetch_error", "loop_sleeps"}
        \/ ev' = [op |-> "on_ready", arg |-> "started"])
       => bot_running']_vars

\* C18: channel unavailable. A cycle that cannot resolve its channel returns
\* at once: it never reaches the for loop or a send, and its only step leaves
\* the registry and the set of notified ids unchanged and logs no
\* "New Order" line (at most the error line of a failed fetch).
C18_ChannelUnavailable ==
    [][/\ \A t \in Slots :
            (cycle'[t].st \in {"body", "sending", "returned"}
             /\ ~cycle'[t].channel) => cycle'[t].st = "returned"
       /\ (ev'.op \in {"fetch_ok", "fetch_error"} /\ ev'.arg = "no_channel") =>
            /\ processed_orders' = processed_orders
            /\ notified' = notified
            /\ failed' = failed
            /\ \/ logged' = logged
               \/ logged' = Append(logged, "API Error")]_vars

\* a cycle without channel has returned over a page with a completed order
\* that is not in the registry
C18_Witness ==
    /\ ev.op = "fetch_ok"
    /\ ev.arg = "no_channel"
    /\ \E t \in Slots :
        /\ cycle[t].st = "returned"
        /\ ~cycle[t].channel
        /\ \E i \in 1..Len(cycle[t].orders) :
            /\ cycle[t].orders[i].status = "completed"
            /\ cycle[t].orders[i].id \notin processed_orders

\* C19: fetch is all-or-nothing. When the response is a payload whose
\* records all have id, status, total and customer_email, the cycle gets
\* every record, in payload order, and nothing is logged; in every other
\* case (an exception, or a single record with a key missing) it gets the
\* empty list and one error line is logged, and the cycle notifies and marks
\* nothing.
C19_FetchAllOrNothing ==
    [][/\ ev'.op \in {"fetch_ok", "fetch_error"} =>
            LET data == ev'.resp.data
                complete ==
                    /\ ev'.resp.kind = "json"
                    /\ \A i \in 1..Len(data) :
                            {"id", "status", "total", "customer_email"}
                                \subseteq DOMAIN data[i]
            IN  /\ processed_orders' = processed_orders
                /\ notified' = notified
                /\ \E t \in Slots :
                    /\ cycle'[t] # cycle[t]
                    /\ cycle'[t].fetch_ok = complete
                    /\ IF complete
                       THEN /\ Len(cycle'[t].orders) = Len(data)
                            /\ \A i \in 1..Len(data) :
                                /\ cycle'[t].orders[i].id = data[i].id
                                /\ cycle'[t].orders[i].status = data[i].status
                            /\ logged' = logged
                       ELSE /\ cycle'[t].orders = <<>>
                            /\ logged' = Append(logged, "API Error")
       /\ \A t \in Slots :
            (cycle[t].st \in {"body", "returned"} /\ ~cycle[t].fetch_ok)
                => /\ cycle'[t].st # "sending"
                   /\ processed_orders' = processed_orders]_vars

\* a page whose first record is a complete, completed, unseen order and whose
\* second record lacks a key has been dropped whole
C19_Witness ==
    /\ ev.op = "fetch_error"
    /\ ev.resp.kind = "json"
    /\ Len(ev.resp.data) = 2
    /\ DOMAIN ev.resp.data[1] = {"id", "status", "total", "customer_email"}
    /\ ev.resp.data[1].status = "completed"
    /\ ev.resp.data[1].id \notin processed_orders
    /\ "total" \notin DOMAIN ev.resp.data[2]
    /\ \E t \in Slots : cycle[t].st \in {"body", "returned"}
                        /\ cycle[t].orders = <<>>
====
